---------------------------- MODULE Spec2Model ----------------------------
(***************************************************************************)
(* Model of the session store and assignment engine of                     *)
(* blood_on_the_clocktower (src/game_service.py, src/models.py) together   *)
(* with the HTTP handlers of src/main.py that call it.                     *)
(*                                                                         *)
(* Every handler of src/main.py is an `async def` that calls one           *)
(* synchronous method of the GameService singleton and never awaits        *)
(* inside it, so each request runs to completion on the event loop: one    *)
(* action per handler.  A service method is an operator from the store it  *)
(* runs on and its arguments to its outcome (what it returns or raises,    *)
(* and the store it leaves); the handler's action installs that store.     *)
(* A second specification, SpecServer, does not take that for granted: it  *)
(* runs join_game and start_game as tasks of the event loop, split where   *)
(* they check and where they write, with several requests in flight.       *)
(*                                                                         *)
(* Conventions                                                             *)
(*   Optional[T]   None is <<>>, a present value x is <<x>>.               *)
(*   ValueError    every failure of the service is a Python ValueError;    *)
(*                 the model keeps its message (the Err* strings), which   *)
(*                 is what tells the failures apart.                       *)
(*   uuid tokens   str(uuid.uuid4())[:8] is modelled as a token that was   *)
(*                 never issued before (collisions of the 32 random bits   *)
(*                 are outside the model).                                 *)
(*   catalog       data/editions.json is read once at construction; Init   *)
(*                 draws it from the bounded set Catalogs.                 *)
(***************************************************************************)
EXTENDS Integers, Sequences, FiniteSets, TLC

VARIABLES
    games,          \* GameService.games: game id -> Game
    editions_data,  \* GameService.editions_data: the loaded catalog
    start_ok,       \* history: ids of the games on which start_game has returned
    tasks,          \* the requests in flight on the event loop, one frame each
    running         \* the task the event loop is running, 0 when it is free

vars == <<games, editions_data, start_ok, tasks, running>>

-----------------------------------------------------------------------------
(* Bounds of the model *)

MaxGames == 2       \* games are created while the store holds fewer
MaxJoins == 3       \* players join while fewer have joined, over all games
MaxTasks == 2       \* requests in flight at the same time

-----------------------------------------------------------------------------
(* Optional values *)

None == <<>>
Some(x) == <<x>>
IsNone(o) == o = <<>>
IsSome(o) == o # <<>>
Get(o) == o[1]

Min(a, b) == IF a <= b THEN a ELSE b

-----------------------------------------------------------------------------
(* models.py *)

\* CharacterType: the four values of the enum, in declaration order
CharacterTypes == <<"townsfolk", "outsiders", "minions", "demons">>

\* Character(id, name, ability, first_night, other_nights, type)
Character(id, name, ability, first_night, other_nights, type) ==
    [id |-> id, name |-> name, ability |-> ability,
     first_night |-> first_night, other_nights |-> other_nights, type |-> type]

\* Player(id, name, is_storyteller); character defaults to None
Player(id, name, is_storyteller) ==
    [id |-> id, name |-> name, character |-> None, is_storyteller |-> is_storyteller]

\* Game(id, edition, players); started defaults to False, player_count to None
Game(id, edition, players) ==
    [id |-> id, edition |-> edition, players |-> players,
     started |-> FALSE, player_count |-> None]

-----------------------------------------------------------------------------
(* The catalogs the service may have loaded (data/editions.json).  An       *)
(* entry of "characters" is a JSON object without its type; "setup" maps    *)
(* the decimal string of a player count to the required number per type.    *)

Raw(id, name, ability, first_night, other_nights) ==
    [id |-> id, name |-> name, ability |-> ability,
     first_night |-> first_night, other_nights |-> other_nights]

Dist(t, o, m, d) ==
    [townsfolk |-> t, outsiders |-> o, minions |-> m, demons |-> d]

\* every bucket covers every row of the table and every row sums to its key
EditionExact ==
    [name |-> "Trouble Brewing",
     characters |->
        [townsfolk |-> << Raw("washerwoman", "Washerwoman", "learns a townsfolk", 1, 2),
                          Raw("monk", "Monk", "protects a player", 0, 2) >>,
         outsiders |-> << Raw("drunk", "Drunk", "thinks they are a townsfolk", 0, 0) >>,
         minions   |-> << Raw("poisoner", "Poisoner", "poisons a player", 1, 1) >>,
         demons    |-> << Raw("imp", "Imp", "kills a player", 0, 1) >>],
     setup |-> ("1" :> Dist(0, 0, 0, 1) @@ "2" :> Dist(0, 1, 0, 1)
                @@ "3" :> Dist(2, 0, 0, 1) @@ "4" :> Dist(2, 0, 1, 1))]

\* rows that ask a bucket for more than it holds, rows that sum to more or
\* less than their key, a row for no player at all, and a gap at "3"
EditionShort ==
    [name |-> "Bad Moon Rising",
     characters |->
        [townsfolk |-> << Raw("sailor", "Sailor", "drinks with a player", 1, 1) >>,
         outsiders |-> << >>,
         minions   |-> << Raw("godfather", "Godfather", "learns the outsiders", 1, 2) >>,
         demons    |-> << Raw("zombuul", "Zombuul", "kills if nobody died", 0, 2) >>],
     setup |-> ("0" :> Dist(1, 0, 0, 0) @@ "1" :> Dist(1, 0, 1, 0)
                @@ "2" :> Dist(2, 1, 0, 0) @@ "4" :> Dist(3, 1, 1, 1))]

Catalogs ==
    { ("tb" :> EditionExact @@ "bmr" :> EditionShort),
      ("snv" :> EditionShort) }

\* edition identifiers a request may carry
EditionArgs == {"tb", "bmr", "snv"}
\* display names a request may carry
StorytellerNames == {"Alice"}
PlayerNames == {"Bob"}

-----------------------------------------------------------------------------
(* Request arguments *)

\* game ids a request may carry: the ids of the games of gs, and 0, which no
\* game carries
GameIdArgs(gs) == DOMAIN gs \cup {0}
\* player ids a request may carry: the ids of the players of the games of gs,
\* and <<0, 0>>, which no player carries
PlayerIdArgs(gs) ==
    UNION {{gs[g].players[i].id : i \in 1..Len(gs[g].players)} : g \in DOMAIN gs}
        \cup {<<0, 0>>}
\* player counts a start request may carry
PlayerCountArgs == 0..(MaxJoins + 1)

-----------------------------------------------------------------------------
(* Python built-ins the service uses *)

\* str(int): the decimal numeral
Digits == <<"0", "1", "2", "3", "4", "5", "6", "7", "8", "9">>

RECURSIVE StrNat(_)
StrNat(n) == IF n < 10 THEN Digits[n + 1] ELSE StrNat(n \div 10) \o Digits[(n % 10) + 1]

str(n) == IF n < 0 THEN "-" \o StrNat(0 - n) ELSE StrNat(n)

\* the injections 1..k -> 1..n: the ways to draw k positions without replacement
Draws(k, n) ==
    {f \in [1..k -> 1..n] : \A i, j \in 1..k : i # j => f[i] # f[j]}

\* faulty variant of random_sample: draws with replacement (random.choices)
random_sample_with_replacement(population, k) ==
    {[i \in 1..k |-> population[f[i]]] : f \in [1..k -> 1..Len(population)]}

\* random.sample(population, k): every list of k elements at distinct positions
random_sample(population, k) ==
    {[i \in 1..k |-> population[f[i]]] : f \in Draws(k, Len(population))}

\* random.shuffle(x): every rearrangement of x
random_shuffle(x) ==
    {[i \in 1..Len(x) |-> x[f[i]]] : f \in Draws(Len(x), Len(x))}

\* faulty variant of InsertByKey: c goes before the elements of equal key, as
\* in a sort that is not stable
RECURSIVE InsertByKey_before_equal(_, _, _)
InsertByKey_before_equal(s, c, key) ==
    IF s = <<>> THEN <<c>>
    ELSE IF c[key] <= s[1][key] THEN <<c>> \o s
    ELSE <<s[1]>> \o InsertByKey_before_equal(Tail(s), c, key)

\* inserts c after every element whose key is not larger (keeps sorted stable)
RECURSIVE InsertByKey(_, _, _)
InsertByKey(s, c, key) ==
    IF s = <<>> THEN <<c>>
    ELSE IF c[key] < s[1][key] THEN <<c>> \o s
    ELSE <<s[1]>> \o InsertByKey(Tail(s), c, key)

\* faulty variant of sorted: the list is left in the order it came in
sorted_not(s, key) == s

\* sorted(s, key=lambda x: x.<key>): ascending, equal keys keep their order
RECURSIVE sorted(_, _)
sorted(s, key) ==
    IF s = <<>> THEN <<>>
    ELSE InsertByKey(sorted(SubSeq(s, 1, Len(s) - 1), key), s[Len(s)], key)

-----------------------------------------------------------------------------
(* Error messages of the ValueErrors the service raises *)

NoError == ""
ErrEditionNotFound == "Edition nicht gefunden"
ErrGameNotFound == "Spiel nicht gefunden"
ErrAlreadyStarted == "Spiel hat bereits begonnen"
ErrCountMismatch == "Spieleranzahl stimmt nicht ueberein"
ErrInvalidCount == "Ungueltige Spielerzahl"
ErrNotFoundOrNotStarted == "Spiel nicht gefunden oder noch nicht gestartet"
ErrOnlyStoryteller == "Nur der Erzaehler kann diese Ansicht sehen"

\* the outcome of a call on the store gs: `return value`, leaving the store gs
Return(gs, value) == [error |-> NoError, value |-> Some(value), games |-> gs]
\* the outcome of a call on the store gs: `raise ValueError(error)`, leaving gs
Raise(gs, error) == [error |-> error, value |-> None, games |-> gs]

-----------------------------------------------------------------------------
(* uuid tokens *)

\* faulty variant of NewGameId: the token is not drawn anew, every game gets
\* the same id
NewGameId_reused(gs) == 1

\* game_id = str(uuid.uuid4())[:8]: a token no game of gs carries
NewGameId(gs) == Cardinality(DOMAIN gs) + 1

\* id = str(uuid.uuid4())[:8] of a Player: a token no player carries yet
NewPlayerId(game_id, players) == <<game_id, Len(players)>>

-----------------------------------------------------------------------------
(* GameService *)

\* faulty variant of non_storyteller_players: the filter
\* `if not p.is_storyteller` is missing
non_storyteller_players_unfiltered(players) ==
    [i \in 1..Len(players) |-> i]

\* [p for p in game.players if not p.is_storyteller], as positions in game.players
non_storyteller_players(players) ==
    SelectSeq([i \in 1..Len(players) |-> i], LAMBDA i : ~players[i].is_storyteller)

\* faulty variant of create_game: the edition is not looked up in
\* editions_data
create_game_any_edition(gs, edition, storyteller_name) ==
    LET game_id == NewGameId(gs)
        storyteller == Player(NewPlayerId(game_id, <<>>), storyteller_name, TRUE)
        game == Game(game_id, edition, <<storyteller>>)
    IN  Return((game_id :> game) @@ gs, game)

\* create_game(edition, storyteller_name)
create_game(gs, edition, storyteller_name) ==
    IF edition \notin DOMAIN editions_data
    THEN Raise(gs, ErrEditionNotFound)
    ELSE LET game_id == NewGameId(gs)
             storyteller == Player(NewPlayerId(game_id, <<>>), storyteller_name, TRUE)
             game == Game(game_id, edition, <<storyteller>>)
         IN  Return((game_id :> game) @@ gs, game)

\* get_game(game_id): self.games.get(game_id)
get_game(gs, game_id) ==
    IF game_id \in DOMAIN gs THEN Some(gs[game_id]) ELSE None

\* faulty variant of join_game: the player is appended before game.started
\* is looked at
join_game_appends_first(gs, game_id, player_name) ==
    LET game == get_game(gs, game_id)
    IN  IF IsNone(game)
        THEN Raise(gs, ErrGameNotFound)
        ELSE LET player == Player(NewPlayerId(game_id, Get(game).players),
                                  player_name, FALSE)
                 appended == [gs EXCEPT ![game_id].players = Append(@, player)]
             IN  IF Get(game).started
                 THEN Raise(appended, ErrAlreadyStarted)
                 ELSE Return(appended, player)

\* faulty variant of join_game: the new player is built like the storyteller
join_game_as_storyteller(gs, game_id, player_name) ==
    LET game == get_game(gs, game_id)
    IN  IF IsNone(game)
        THEN Raise(gs, ErrGameNotFound)
        ELSE IF Get(game).started
        THEN Raise(gs, ErrAlreadyStarted)
        ELSE LET player == Player(NewPlayerId(game_id, Get(game).players),
                                  player_name, TRUE)
             IN  Return([gs EXCEPT ![game_id].players = Append(@, player)], player)

\* faulty variant of join_game: the check of game.started is missing
join_game_ignores_started(gs, game_id, player_name) ==
    LET game == get_game(gs, game_id)
    IN  IF IsNone(game)
        THEN Raise(gs, ErrGameNotFound)
        ELSE LET player == Player(NewPlayerId(game_id, Get(game).players),
                                  player_name, FALSE)
             IN  Return([gs EXCEPT ![game_id].players = Append(@, player)], player)

\* join_game(game_id, player_name)
join_game(gs, game_id, player_name) ==
    LET game == get_game(gs, game_id)
    IN  IF IsNone(game)
        THEN Raise(gs, ErrGameNotFound)
        ELSE IF Get(game).started
        THEN Raise(gs, ErrAlreadyStarted)
        ELSE LET player == Player(NewPlayerId(game_id, Get(game).players),
                                  player_name, FALSE)
             IN  Return([gs EXCEPT ![game_id].players = Append(@, player)], player)

\* faulty variant of _get_role_distribution: looks up the count with the
\* storyteller in it
_get_role_distribution_counts_storyteller(gs, edition, player_count) ==
    LET setup == editions_data[edition].setup
    IN  IF str(player_count + 1) \notin DOMAIN setup
        THEN Raise(gs, ErrInvalidCount)
        ELSE Return(gs, setup[str(player_count + 1)])

\* _get_role_distribution(edition, player_count)
_get_role_distribution(gs, edition, player_count) ==
    LET setup == editions_data[edition].setup
    IN  IF str(player_count) \notin DOMAIN setup
        THEN Raise(gs, ErrInvalidCount)
        ELSE Return(gs, setup[str(player_count)])

\* faulty variant of chosen_characters: one more character than the
\* distribution asks for is sampled from the bucket
chosen_characters_one_more(available, count, char_type) ==
    {[i \in 1..Len(chosen) |->
          Character(chosen[i].id, chosen[i].name, chosen[i].ability,
                    chosen[i].first_night, chosen[i].other_nights, char_type)]
     : chosen \in random_sample(available, Min(count + 1, Len(available)))}

\* the body of the loop of _select_random_characters for one char_type:
\* every list `chosen` may become, each entry tagged with char_type
chosen_characters(available, count, char_type) ==
    {[i \in 1..Len(chosen) |->
          Character(chosen[i].id, chosen[i].name, chosen[i].ability,
                    chosen[i].first_night, chosen[i].other_nights, char_type)]
     : chosen \in random_sample(available, Min(count, Len(available)))}

\* the loop of _select_random_characters over distribution.items()
RECURSIVE select_for(_, _, _)
select_for(characters_data, distribution, types) ==
    IF types = <<>> THEN {<<>>}
    ELSE {head \o rest :
            head \in chosen_characters(characters_data[types[1]],
                                       distribution[types[1]], types[1]),
            rest \in select_for(characters_data, distribution, Tail(types))}

\* faulty variant of _select_random_characters: `selected` keeps the first
\* bucket of the distribution only
_select_random_characters_first_bucket(edition, distribution) ==
    select_for(editions_data[edition].characters, distribution,
               <<CharacterTypes[1]>>)

\* _select_random_characters(edition, distribution): every list it may return
_select_random_characters(edition, distribution) ==
    select_for(editions_data[edition].characters, distribution, CharacterTypes)

\* faulty variant of assign_characters: zip(game.players, characters), so the
\* storyteller takes the first character
assign_characters_to_all(players, characters) ==
    LET n == Min(Len(players), Len(characters))
    IN  [i \in 1..Len(players) |->
            IF i <= n THEN [players[i] EXCEPT !.character = Some(characters[i])]
            ELSE players[i]]

\* faulty variant of assign_characters: the characters go to the players from
\* the end of the list, zip(reversed(non_storyteller_players), characters)
assign_characters_from_end(players, characters) ==
    LET nsp == non_storyteller_players(players)
        n == Min(Len(nsp), Len(characters))
    IN  [i \in 1..Len(players) |->
            IF \E j \in 1..n : nsp[Len(nsp) + 1 - j] = i
            THEN [players[i] EXCEPT
                    !.character =
                        Some(characters[CHOOSE j \in 1..n : nsp[Len(nsp) + 1 - j] = i])]
            ELSE players[i]]

\* for player, character in zip(non_storyteller_players, characters):
\*     player.character = character
assign_characters(players, characters) ==
    LET nsp == non_storyteller_players(players)
        n == Min(Len(nsp), Len(characters))
    IN  [i \in 1..Len(players) |->
            IF \E j \in 1..n : nsp[j] = i
            THEN [players[i] EXCEPT
                    !.character = Some(characters[CHOOSE j \in 1..n : nsp[j] = i])]
            ELSE players[i]]

\* faulty variant of started_outcome: player_count is taken from
\* len(game.players), which counts the storyteller
started_outcome_counts_all(gs, game, player_count, characters) ==
    LET started == [game EXCEPT !.players = assign_characters(@, characters),
                                !.started = TRUE,
                                !.player_count = Some(Len(game.players))]
    IN  Return([gs EXCEPT ![game.id] = started], started)

\* the store after the successful end of start_game, and the game it returns
started_outcome(gs, game, player_count, characters) ==
    LET started == [game EXCEPT !.players = assign_characters(@, characters),
                                !.started = TRUE,
                                !.player_count = Some(player_count)]
    IN  Return([gs EXCEPT ![game.id] = started], started)

\* characters = self._select_random_characters(...); random.shuffle(characters):
\* every list `characters` may be
shuffled_characters(edition, distribution) ==
    UNION {random_shuffle(selected) :
             selected \in _select_random_characters(edition, distribution)}

\* faulty variant of start_game: the check of game.started is missing
start_game_ignores_started(gs, game_id, player_count) ==
    LET game == get_game(gs, game_id)
    IN  IF IsNone(game)
        THEN {Raise(gs, ErrGameNotFound)}
        ELSE IF Len(non_storyteller_players(Get(game).players)) # player_count
        THEN {Raise(gs, ErrCountMismatch)}
        ELSE LET distribution ==
                     _get_role_distribution(gs, Get(game).edition, player_count)
             IN  IF distribution.error # NoError
                 THEN {distribution}
                 ELSE {started_outcome(gs, Get(game), player_count, characters) :
                         characters \in shuffled_characters(
                              Get(game).edition, Get(distribution.value))}

\* start_game(game_id, player_count): every outcome the call may have
start_game(gs, game_id, player_count) ==
    LET game == get_game(gs, game_id)
    IN  IF IsNone(game)
        THEN {Raise(gs, ErrGameNotFound)}
        ELSE IF Get(game).started
        THEN {Raise(gs, ErrAlreadyStarted)}
        ELSE IF Len(non_storyteller_players(Get(game).players)) # player_count
        THEN {Raise(gs, ErrCountMismatch)}
        ELSE LET distribution ==
                     _get_role_distribution(gs, Get(game).edition, player_count)
             IN  IF distribution.error # NoError
                 THEN {distribution}
                 ELSE {started_outcome(gs, Get(game), player_count, characters) :
                         characters \in shuffled_characters(
                              Get(game).edition, Get(distribution.value))}

\* the entries of a night list: {"name", "ability", "order"} per character
night_entries(characters, key) ==
    [i \in 1..Len(characters) |->
        [name |-> characters[i].name, ability |-> characters[i].ability,
         order |-> characters[i][key]]]

\* one list of get_night_order: sorted([c for c in ... if c.<key> > 0], key=<key>)
night_list(characters_in_game, key) ==
    sorted(SelectSeq(characters_in_game, LAMBDA c : c[key] > 0), key)

\* [p.character for p in game.players if p.character is not None]
characters_in_game(players) ==
    LET with == SelectSeq(players, LAMBDA p : IsSome(p.character))
    IN  [i \in 1..Len(with) |-> Get(with[i].character)]

\* get_night_order(game_id)
get_night_order(gs, game_id) ==
    LET game == get_game(gs, game_id)
    IN  IF IsNone(game) \/ ~Get(game).started
        THEN Raise(gs, ErrNotFoundOrNotStarted)
        ELSE LET in_game == characters_in_game(Get(game).players)
                 first_night == night_list(in_game, "first_night")
                 other_nights == night_list(in_game, "other_nights")
             IN  Return(gs,
                    [first_night |-> night_entries(first_night, "first_night"),
                     other_nights |-> night_entries(other_nights, "other_nights")])

\* faulty variant of get_player_role: `return player.character` is outside the
\* `if player.id == player_id`, so the first player of the list answers
get_player_role_first_player(gs, game_id, player_id) ==
    LET game == get_game(gs, game_id)
    IN  IF IsNone(game) THEN None
        ELSE Get(game).players[1].character

\* get_player_role(game_id, player_id): the character, or None
get_player_role(gs, game_id, player_id) ==
    LET game == get_game(gs, game_id)
    IN  IF IsNone(game) THEN None
        ELSE LET players == Get(game).players
                 hits == {i \in 1..Len(players) : players[i].id = player_id}
             IN  IF hits = {} THEN None
                 ELSE players[CHOOSE i \in hits : \A j \in hits : i <= j].character

\* one entry of players_overview
player_overview(p) ==
    [name |-> p.name,
     character |-> IF IsSome(p.character) THEN Some(Get(p.character).name) ELSE None,
     ability |-> IF IsSome(p.character) THEN Some(Get(p.character).ability) ELSE None,
     type |-> IF IsSome(p.character) THEN Some(Get(p.character).type) ELSE None]

\* faulty variant of find_storyteller: `and p.is_storyteller` is missing
find_storyteller_any_player(players, player_id) ==
    LET hits == {i \in 1..Len(players) : players[i].id = player_id}
    IN  IF hits = {} THEN None
        ELSE Some(players[CHOOSE i \in hits : \A j \in hits : i <= j])

\* next((p for p in game.players if p.id == player_id and p.is_storyteller), None)
find_storyteller(players, player_id) ==
    LET hits == {i \in 1..Len(players) :
                    players[i].id = player_id /\ players[i].is_storyteller}
    IN  IF hits = {} THEN None
        ELSE Some(players[CHOOSE i \in hits : \A j \in hits : i <= j])

\* faulty variant of get_storyteller_overview: the night order is asked for
\* whether or not the game has started
get_storyteller_overview_always_night_order(gs, game_id, player_id) ==
    LET game == get_game(gs, game_id)
    IN  IF IsNone(game)
        THEN Raise(gs, ErrGameNotFound)
        ELSE IF IsNone(find_storyteller(Get(game).players, player_id))
        THEN Raise(gs, ErrOnlyStoryteller)
        ELSE LET others == SelectSeq(Get(game).players, LAMBDA p : ~p.is_storyteller)
                 night_order == get_night_order(gs, game_id)
             IN  IF night_order.error # NoError
                 THEN night_order
                 ELSE Return(gs,
                        [game_id |-> Get(game).id,
                         edition |-> Get(game).edition,
                         started |-> Get(game).started,
                         players |-> [i \in 1..Len(others) |-> player_overview(others[i])],
                         night_order |-> night_order.value])

\* get_storyteller_overview(game_id, player_id)
get_storyteller_overview(gs, game_id, player_id) ==
    LET game == get_game(gs, game_id)
    IN  IF IsNone(game)
        THEN Raise(gs, ErrGameNotFound)
        ELSE IF IsNone(find_storyteller(Get(game).players, player_id))
        THEN Raise(gs, ErrOnlyStoryteller)
        ELSE LET others == SelectSeq(Get(game).players, LAMBDA p : ~p.is_storyteller)
                 night_order == IF Get(game).started
                                THEN get_night_order(gs, game_id)
                                ELSE Return(gs, None)
             IN  IF night_order.error # NoError
                 THEN night_order
                 ELSE Return(gs,
                        [game_id |-> Get(game).id,
                         edition |-> Get(game).edition,
                         started |-> Get(game).started,
                         players |-> [i \in 1..Len(others) |-> player_overview(others[i])],
                         night_order |-> IF Get(game).started
                                         THEN night_order.value ELSE None])

-----------------------------------------------------------------------------
(* The handlers of main.py *)

\* what a handler answers: a JSON body, or HTTPException(status_code, detail)
Ok(body) == [status |-> 200, body |-> Some(body), detail |-> NoError]
HTTPException(status_code, detail) ==
    [status |-> status_code, body |-> None, detail |-> detail]

\* GET /api/game/{game_id}
get_game_response(gs, game_id) ==
    LET game == get_game(gs, game_id)
    IN  IF IsNone(game)
        THEN HTTPException(404, ErrGameNotFound)
        ELSE Ok([id |-> Get(game).id, edition |-> Get(game).edition,
                 started |-> Get(game).started,
                 player_count |-> Len(non_storyteller_players(Get(game).players))])

\* GET /api/player/{game_id}/{player_id}/role
get_player_role_response(gs, game_id, player_id) ==
    LET character == get_player_role(gs, game_id, player_id)
    IN  IF IsNone(character)
        THEN HTTPException(404, "Rolle nicht gefunden")
        ELSE Ok([name |-> Get(character).name, ability |-> Get(character).ability,
                 type |-> Get(character).type])

\* GET /api/storyteller/{game_id}/{storyteller_id}/overview
get_storyteller_overview_response(gs, game_id, storyteller_id) ==
    LET outcome == get_storyteller_overview(gs, game_id, storyteller_id)
    IN  IF outcome.error # NoError
        THEN HTTPException(403, outcome.error)
        ELSE Ok(Get(outcome.value))

\* the number of players that have joined the games of gs
Joined(gs) ==
    LET RECURSIVE Sum(_)
        Sum(S) == IF S = {} THEN 0
                  ELSE LET g == CHOOSE g \in S : TRUE
                       IN  Len(non_storyteller_players(gs[g].players)) + Sum(S \ {g})
    IN  Sum(DOMAIN gs)

\* POST /api/game/create
api_game_create(edition, storyteller_name) ==
    LET outcome == create_game(games, edition, storyteller_name)
    IN  /\ Cardinality(DOMAIN outcome.games) <= MaxGames
        /\ games' = outcome.games
        /\ UNCHANGED <<editions_data, start_ok, tasks, running>>

\* POST /api/game/{game_id}/join
api_game_join(game_id, player_name) ==
    LET outcome == join_game(games, game_id, player_name)
    IN  /\ Joined(outcome.games) <= MaxJoins
        /\ games' = outcome.games
        /\ UNCHANGED <<editions_data, start_ok, tasks, running>>

\* POST /api/game/{game_id}/start
api_game_start(game_id, player_count) ==
    \E outcome \in start_game(games, game_id, player_count) :
        /\ games' = outcome.games
        /\ start_ok' = IF outcome.error = NoError
                       THEN start_ok \cup {game_id} ELSE start_ok
        /\ UNCHANGED <<editions_data, tasks, running>>

\* GET /api/game/{game_id}
api_game(game_id) ==
    /\ get_game_response(games, game_id).status \in {200, 404}
    /\ UNCHANGED vars

\* GET /api/player/{game_id}/{player_id}/role
api_player_role(game_id, player_id) ==
    /\ get_player_role_response(games, game_id, player_id).status \in {200, 404}
    /\ UNCHANGED vars

\* GET /api/storyteller/{game_id}/{storyteller_id}/overview
api_storyteller_overview(game_id, storyteller_id) ==
    /\ get_storyteller_overview_response(games, game_id, storyteller_id).status
           \in {200, 403}
    /\ UNCHANGED vars

\* the frame of a task that holds no request
Idle ==
    [pc |-> "idle", op |-> "", game_id |-> 0, player_name |-> "",
     player_count |-> 0, non_storyteller_players |-> <<>>]

Init ==
    /\ games = <<>>
    /\ editions_data \in Catalogs
    /\ start_ok = {}
    /\ tasks = [t \in 1..MaxTasks |-> Idle]
    /\ running = 0

Next ==
    \/ \E edition \in EditionArgs, name \in StorytellerNames :
           api_game_create(edition, name)
    \/ \E game_id \in GameIdArgs(games), name \in PlayerNames :
           api_game_join(game_id, name)
    \/ \E game_id \in GameIdArgs(games), n \in PlayerCountArgs :
           api_game_start(game_id, n)
    \/ \E game_id \in GameIdArgs(games) : api_game(game_id)
    \/ \E game_id \in GameIdArgs(games), player_id \in PlayerIdArgs(games) :
           api_player_role(game_id, player_id)
    \/ \E game_id \in GameIdArgs(games), player_id \in PlayerIdArgs(games) :
           api_storyteller_overview(game_id, player_id)

Spec == Init /\ [][Next]_vars

-----------------------------------------------------------------------------
(* The event loop.  uvicorn.run(app) serves every request on one asyncio    *)
(* event loop.  A request is a task; the loop runs one task at a time and   *)
(* another task runs only when the running one awaits or returns.  The      *)
(* frames below follow join_game and start_game statement group by          *)
(* statement group, so that what serializes two requests is the event loop  *)
(* and not the grain of the model.                                          *)

\* faulty variant of handler_awaits: the handlers are declared `def`, which
\* FastAPI runs on a thread pool, so another request may run between any two
\* statements of the service
handler_in_threadpool == TRUE

\* whether the running handler gives up the event loop before it returns:
\* `async def join_game` and `async def start_game` call the service
\* without await
handler_awaits == FALSE

\* the task the loop runs after a step of task t that does not return
Continue(t) == IF handler_awaits THEN 0 ELSE t

\* the loop may run task t
MayRun(t) == running \in {0, t}

\* for player, character in zip(non_storyteller_players, characters), with the
\* list non_storyteller_players as the frame of start_game holds it
zip_assign(players, nsp, characters) ==
    LET n == Min(Len(nsp), Len(characters))
    IN  [i \in 1..Len(players) |->
            IF \E j \in 1..n : nsp[j] = i
            THEN [players[i] EXCEPT
                    !.character = Some(characters[CHOOSE j \in 1..n : nsp[j] = i])]
            ELSE players[i]]

\* a POST .../join or .../start on game_id arrives and becomes the task of the
\* first free frame; its body is not read yet
request(t, op, game_id) ==
    /\ tasks[t].pc = "idle"
    /\ \A u \in 1..(t - 1) : tasks[u].pc # "idle"
    /\ tasks' = [tasks EXCEPT ![t] = [Idle EXCEPT !.pc = "ready", !.op = op,
                                                  !.game_id = game_id]]
    /\ UNCHANGED <<games, editions_data, start_ok, running>>

\* join_game, lines 70-75: the game is looked up, a missing or started game
\* raises and the handler answers 400
join_check(t, player_name) ==
    /\ tasks[t].pc = "ready" /\ tasks[t].op = "join"
    /\ running = 0
    /\ Joined(games) + Cardinality({u \in 1..MaxTasks : tasks[u].pc = "join_append"})
          < MaxJoins
    /\ LET game == get_game(games, tasks[t].game_id)
       IN  IF IsNone(game) \/ Get(game).started
           THEN /\ tasks' = [tasks EXCEPT ![t] = Idle]
                /\ running' = 0
           ELSE /\ tasks' = [tasks EXCEPT ![t].pc = "join_append",
                                          ![t].player_name = player_name]
                /\ running' = Continue(t)
    /\ UNCHANGED <<games, editions_data, start_ok>>

\* join_game, lines 77-84: the player is built and appended
join_append(t) ==
    /\ tasks[t].pc = "join_append"
    /\ MayRun(t)
    /\ games' = [games EXCEPT ![tasks[t].game_id].players =
                     Append(@, Player(NewPlayerId(tasks[t].game_id, @),
                                      tasks[t].player_name, FALSE))]
    /\ tasks' = [tasks EXCEPT ![t] = Idle]
    /\ running' = 0
    /\ UNCHANGED <<editions_data, start_ok>>

\* start_game, lines 123-137: the game is looked up, a missing or started
\* game raises, the non-storyteller players are listed and counted
start_check(t, player_count) ==
    /\ tasks[t].pc = "ready" /\ tasks[t].op = "start"
    /\ running = 0
    /\ LET game == get_game(games, tasks[t].game_id)
       IN  IF \/ IsNone(game)
              \/ Get(game).started
              \/ Len(non_storyteller_players(Get(game).players)) # player_count
           THEN /\ tasks' = [tasks EXCEPT ![t] = Idle]
                /\ running' = 0
           ELSE /\ tasks' = [tasks EXCEPT
                                ![t].pc = "start_assign",
                                ![t].player_count = player_count,
                                ![t].non_storyteller_players =
                                    non_storyteller_players(Get(game).players)]
                /\ running' = Continue(t)
    /\ UNCHANGED <<games, editions_data, start_ok>>

\* start_game, lines 140-148: the distribution is looked up (a count without
\* row raises), the characters are selected, shuffled and assigned
start_assign(t) ==
    /\ tasks[t].pc = "start_assign"
    /\ MayRun(t)
    /\ LET game == games[tasks[t].game_id]
           distribution == _get_role_distribution(games, game.edition,
                                                  tasks[t].player_count)
       IN  IF distribution.error # NoError
           THEN /\ tasks' = [tasks EXCEPT ![t] = Idle]
                /\ running' = 0
                /\ UNCHANGED games
           ELSE /\ \E characters \in shuffled_characters(
                                        game.edition, Get(distribution.value)) :
                      games' = [games EXCEPT ![tasks[t].game_id].players =
                                   zip_assign(@, tasks[t].non_storyteller_players,
                                              characters)]
                /\ tasks' = [tasks EXCEPT ![t].pc = "start_finish"]
                /\ running' = Continue(t)
    /\ UNCHANGED <<editions_data, start_ok>>

\* start_game, lines 150-153: started and player_count are set, the game is
\* returned
start_finish(t) ==
    /\ tasks[t].pc = "start_finish"
    /\ MayRun(t)
    /\ games' = [games EXCEPT ![tasks[t].game_id].started = TRUE,
                              ![tasks[t].game_id].player_count =
                                  Some(tasks[t].player_count)]
    /\ start_ok' = start_ok \cup {tasks[t].game_id}
    /\ tasks' = [tasks EXCEPT ![t] = Idle]
    /\ running' = 0
    /\ UNCHANGED editions_data

\* POST /api/game/create, when the loop is free; the runs of the event loop
\* are about the requests on one game and keep one game less than MaxGames
create(edition, storyteller_name) ==
    /\ running = 0
    /\ Cardinality(DOMAIN games) < MaxGames - 1
    /\ api_game_create(edition, storyteller_name)

NextServer ==
    \/ \E edition \in EditionArgs, name \in StorytellerNames : create(edition, name)
    \/ \E t \in 1..MaxTasks, op \in {"join", "start"}, game_id \in DOMAIN games :
           request(t, op, game_id)
    \/ \E t \in 1..MaxTasks, name \in PlayerNames : join_check(t, name)
    \/ \E t \in 1..MaxTasks : join_append(t)
    \/ \E t \in 1..MaxTasks, n \in PlayerCountArgs : start_check(t, n)
    \/ \E t \in 1..MaxTasks : start_assign(t)
    \/ \E t \in 1..MaxTasks : start_finish(t)

SpecServer == Init /\ [][NextServer]_vars

-----------------------------------------------------------------------------
(* Vocabulary of the properties *)

\* the error taxonomy: which failures count as which kind
InvalidState == {ErrAlreadyStarted, ErrCountMismatch}
InvalidArgument == {ErrInvalidCount}

\* the non-storyteller players of a game, in join order
NonHosts(game) == SelectSeq(game.players, LAMBDA p : ~p.is_storyteller)

\* a participant without what start_game gives it
Unassigned(p) == [p EXCEPT !.character = None]

\* players2 is players1, or players1 with one participant appended at the end,
\* characters aside
GrowsByAppend(players1, players2) ==
    /\ Len(players2) \in {Len(players1), Len(players1) + 1}
    /\ \A i \in 1..Len(players1) : Unassigned(players2[i]) = Unassigned(players1[i])

\* the characters the edition holds in a bucket
Available(edition, char_type) == Len(editions_data[edition].characters[char_type])

\* the number the edition's table asks of a bucket for player_count players
Required(edition, player_count, char_type) ==
    editions_data[edition].setup[str(player_count)][char_type]

\* sum over the buckets of min(required, available)
SelectedCount(edition, player_count) ==
    LET take(t) == Min(Required(edition, player_count, t), Available(edition, t))
    IN  take("townsfolk") + take("outsiders") + take("minions") + take("demons")

\* the edition's table has a row for exactly player_count players
HasRow(edition, player_count) ==
    \E key \in DOMAIN editions_data[edition].setup :
        key = Digits[player_count + 1]

\* the id of the storyteller of a game
HostId(game) == game.players[1].id

\* the characters the players of a game hold, in join order
Assigned(game) ==
    LET with == SelectSeq(game.players, LAMBDA p : IsSome(p.character))
    IN  [i \in 1..Len(with) |-> Get(with[i].character)]

\* the players of a game that hold a character
WithCharacter(game) ==
    {i \in 1..Len(game.players) : IsSome(game.players[i].character)}

-----------------------------------------------------------------------------
(* C1: once start_game has succeeded on a game, every later join_game on   *)
(* that game raises "Spiel hat bereits begonnen" (InvalidState) and leaves  *)
(* the store alone, and the game's player list never changes again; until   *)
(* then the list only grows by one player appended at its end.              *)

C1_Step ==
    /\ \A g \in start_ok' : \A name \in PlayerNames :
          /\ join_game(games', g, name).error = ErrAlreadyStarted
          /\ join_game(games', g, name).error \in InvalidState
          /\ join_game(games', g, name).games = games'
    /\ \A g \in DOMAIN games :
          /\ g \in DOMAIN games'
          /\ g \in start_ok => games'[g].players = games[g].players
          /\ g \notin start_ok => GrowsByAppend(games[g].players, games'[g].players)

C1_NoJoinAfterStart == [][C1_Step]_vars

\* a started game with two joined players, on which a join is refused
C1_Witness ==
    \E g \in start_ok :
        /\ Len(NonHosts(games[g])) >= 2
        /\ join_game(games, g, "Bob").error = ErrAlreadyStarted

-----------------------------------------------------------------------------
(* C2 as stated: whenever start_game is called twice on the same game, the  *)
(* second call raises an InvalidState error, whatever player_count either   *)
(* call carries.                                                            *)

C2_SecondStartAlwaysInvalidState ==
    \A g \in DOMAIN games : \A n1, n2 \in PlayerCountArgs :
        \A first \in start_game(games, g, n1) :
            \A second \in start_game(first.games, g, n2) :
                second.error \in InvalidState

(* C2 amended: once a start_game call has succeeded on a game, every later  *)
(* start_game call on that game raises "Spiel hat bereits begonnen"         *)
(* (InvalidState) and changes nothing, whatever player_count it carries.    *)

C2_StartAfterSuccessRejected ==
    /\ \A g \in start_ok : \A n \in PlayerCountArgs :
          start_game(games, g, n) = {Raise(games, ErrAlreadyStarted)}
    /\ \A g \in DOMAIN games : \A n1, n2 \in PlayerCountArgs :
          \A first \in start_game(games, g, n1) :
              first.error = NoError =>
                  start_game(first.games, g, n2)
                      = {Raise(first.games, ErrAlreadyStarted)}

\* a started game on which the call that started it is repeated and refused
C2_Witness ==
    \E g \in start_ok :
        /\ games[g].player_count = Some(Len(NonHosts(games[g])))
        /\ \E again \in start_game(games, g, Len(NonHosts(games[g]))) :
              again.error = ErrAlreadyStarted

-----------------------------------------------------------------------------
(* C3 as stated: in a started game every non-storyteller player holds a     *)
(* character, and a character a player holds is never replaced or cleared.  *)

C3_KeepsCharacters ==
    \A g \in DOMAIN games : \A i \in WithCharacter(games[g]) :
        /\ g \in DOMAIN games'
        /\ i <= Len(games'[g].players)
        /\ games'[g].players[i].id = games[g].players[i].id
        /\ games'[g].players[i].character = games[g].players[i].character

C3_EveryPlayerHasCharacter ==
    [][/\ \A g \in DOMAIN games' :
              games'[g].started =>
                  \A j \in 1..Len(NonHosts(games'[g])) :
                      IsSome(NonHosts(games'[g])[j].character)
       /\ C3_KeepsCharacters]_vars

(* C3 amended: in a started game the non-storyteller players that hold a    *)
(* character are the first min(number of non-storyteller players, number of *)
(* selected characters) in join order - all of them unless the selection    *)
(* was shorter than the player list - and a character a player holds is     *)
(* never replaced or cleared.                                               *)

C3_Step ==
    /\ \A g \in DOMAIN games' :
          games'[g].started =>
              LET nh == NonHosts(games'[g])
                  k == Min(Len(nh), SelectedCount(games'[g].edition,
                                                  Get(games'[g].player_count)))
              IN  \A j \in 1..Len(nh) : IsSome(nh[j].character) <=> j <= k
    /\ C3_KeepsCharacters

C3_AssignedOnceUpToSelection == [][C3_Step]_vars

\* a started game whose two or more joined players all hold a character
C3_Witness ==
    \E g \in start_ok :
        /\ Len(NonHosts(games[g])) >= 2
        /\ \A j \in 1..Len(NonHosts(games[g])) :
              IsSome(NonHosts(games[g])[j].character)

-----------------------------------------------------------------------------
(* C4: in every game, no two players hold characters with the same          *)
(* character id.                                                            *)

C4_UniqueCharacterIds ==
    \A g \in DOMAIN games : \A i, j \in WithCharacter(games[g]) :
        i # j => Get(games[g].players[i].character).id
                    # Get(games[g].players[j].character).id

\* a started game in which two players hold characters of the same bucket
C4_Witness ==
    \E g \in start_ok : \E i, j \in WithCharacter(games[g]) :
        /\ i # j
        /\ Get(games[g].players[i].character).type
              = Get(games[g].players[j].character).type

-----------------------------------------------------------------------------
(* C5: after start_game has succeeded with player_count = N, the number of  *)
(* players of the game that hold a character is min(N, sum over the buckets *)
(* of min(required, available)): N, or fewer when the selection was short.  *)

C5_AssignedCount ==
    \A g \in start_ok :
        /\ IsSome(games[g].player_count)
        /\ Cardinality(WithCharacter(games[g]))
              = Min(Get(games[g].player_count),
                    SelectedCount(games[g].edition, Get(games[g].player_count)))
        /\ Cardinality(WithCharacter(games[g])) <= Get(games[g].player_count)

\* a started game with fewer characters than players: the selection was short
C5_Witness ==
    \E g \in start_ok :
        /\ Cardinality(WithCharacter(games[g])) >= 1
        /\ Cardinality(WithCharacter(games[g])) < Get(games[g].player_count)

-----------------------------------------------------------------------------
(* C6: every game has exactly one player with is_storyteller = TRUE; it is  *)
(* the player create_game made, the first of the player list; no request    *)
(* changes a player's is_storyteller flag or adds a second storyteller.     *)

C6_Step ==
    /\ \A g \in DOMAIN games' :
          /\ Len(games'[g].players) >= 1
          /\ {i \in 1..Len(games'[g].players) : games'[g].players[i].is_storyteller}
                = {1}
          /\ g \notin DOMAIN games => Len(games'[g].players) = 1
    /\ \A g \in DOMAIN games :
          /\ g \in DOMAIN games'
          /\ \A i \in 1..Len(games[g].players) :
                /\ i <= Len(games'[g].players)
                /\ games'[g].players[i].id = games[g].players[i].id
                /\ games'[g].players[i].is_storyteller
                      = games[g].players[i].is_storyteller

C6_OneStoryteller == [][C6_Step]_vars

\* a started game with two joined players besides its storyteller
C6_Witness ==
    \E g \in start_ok :
        /\ Len(games[g].players) >= 3
        /\ games[g].players[1].is_storyteller
        /\ ~games[g].players[2].is_storyteller
        /\ ~games[g].players[3].is_storyteller

-----------------------------------------------------------------------------
(* C7: a create_game, join_game or start_game call that raises leaves the   *)
(* whole store as it was: no game added, no player appended, no character   *)
(* assigned, started and player_count untouched.                            *)

C7_FailureChangesNothing ==
    /\ \A edition \in EditionArgs, name \in StorytellerNames :
          LET outcome == create_game(games, edition, name)
          IN  outcome.error # NoError => outcome.games = games
    /\ \A g \in GameIdArgs(games), name \in PlayerNames :
          LET outcome == join_game(games, g, name)
          IN  outcome.error # NoError => outcome.games = games
    /\ \A g \in GameIdArgs(games), n \in PlayerCountArgs :
          \A outcome \in start_game(games, g, n) :
              outcome.error # NoError => outcome.games = games

\* a store on which a call of each of the three fails, start_game in each of
\* its four ways
C7_Witness ==
    /\ \E edition \in EditionArgs :
          create_game(games, edition, "Alice").error = ErrEditionNotFound
    /\ \E g \in DOMAIN games : join_game(games, g, "Bob").error = ErrAlreadyStarted
    /\ \A e \in {ErrGameNotFound, ErrAlreadyStarted, ErrCountMismatch, ErrInvalidCount} :
          \E g \in GameIdArgs(games), n \in PlayerCountArgs :
              \E outcome \in start_game(games, g, n) : outcome.error = e

-----------------------------------------------------------------------------
(* C8: on a game that exists and has not started, start_game succeeds       *)
(* exactly when player_count equals the number of non-storyteller players   *)
(* and the edition's table has a row for that count; it raises              *)
(* "Spieleranzahl stimmt nicht ueberein" (InvalidState) on another count,   *)
(* whether or not the table has a row for it, and "Ungueltige Spielerzahl"  *)
(* (InvalidArgument) when the count matches and the table has no row; after *)
(* either failure the game is still not started and a join succeeds.        *)

C8_StartOutcome ==
    \A g \in DOMAIN games : \A n \in PlayerCountArgs :
        ~games[g].started =>
            LET outcomes == start_game(games, g, n)
                matches == n = Len(NonHosts(games[g]))
                row == HasRow(games[g].edition, n)
            IN  /\ outcomes # {}
                /\ \A outcome \in outcomes :
                      /\ outcome.error = NoError <=> (matches /\ row)
                      /\ ~matches => /\ outcome.error = ErrCountMismatch
                                     /\ outcome.error \in InvalidState
                      /\ (matches /\ ~row) => /\ outcome.error = ErrInvalidCount
                                              /\ outcome.error \in InvalidArgument
                      /\ outcome.error = NoError =>
                            /\ outcome.games[g].started
                            /\ outcome.games[g].player_count = Some(n)
                      /\ outcome.error # NoError =>
                            /\ ~outcome.games[g].started
                            /\ \A name \in PlayerNames :
                                  join_game(outcome.games, g, name).error = NoError

\* a game, not started, with joined players, on which start_game fails both
\* ways and succeeds
C8_Witness ==
    /\ \E g \in DOMAIN games :
          /\ ~games[g].started
          /\ Len(NonHosts(games[g])) >= 1
          /\ \E n \in PlayerCountArgs : \E outcome \in start_game(games, g, n) :
                outcome.error = ErrCountMismatch /\ ~HasRow(games[g].edition, n)
    /\ \E h \in DOMAIN games, m \in PlayerCountArgs :
          \E failed \in start_game(games, h, m) : failed.error = ErrInvalidCount
    /\ \E h \in DOMAIN games, m \in PlayerCountArgs :
          \E done \in start_game(games, h, m) : done.error = NoError

-----------------------------------------------------------------------------
(* C9: get_storyteller_overview of a game, called with an id that is not    *)
(* the id of the game's storyteller (the id of another player of the game,  *)
(* of a player of another game, or of no player), raises "Nur der           *)
(* Erzaehler kann diese Ansicht sehen", which the handler answers with 403  *)
(* (Forbidden), whether the game has started or not, and returns nothing.   *)

C9_OverviewForbidden ==
    \A g \in DOMAIN games : \A id \in PlayerIdArgs(games) :
        id # HostId(games[g]) =>
            /\ get_storyteller_overview(games, g, id)
                  = Raise(games, ErrOnlyStoryteller)
            /\ get_storyteller_overview_response(games, g, id)
                  = HTTPException(403, ErrOnlyStoryteller)

\* a started game and a player of it who holds a character and is refused,
\* and a game that has not started and a player of it who is refused
C9_Witness ==
    /\ \E g \in start_ok : \E i \in WithCharacter(games[g]) :
          get_storyteller_overview_response(games, g, games[g].players[i].id).status
              = 403
    /\ \E g \in DOMAIN games :
          /\ ~games[g].started
          /\ Len(games[g].players) >= 2
          /\ get_storyteller_overview_response(games, g, games[g].players[2].id).status
                = 403

-----------------------------------------------------------------------------
(* C10: for a started game, each of the two lists of get_night_order is     *)
(* sorted ascending by its rank, holds no character whose rank in that list *)
(* is 0, and holds exactly once every character a player of the game holds  *)
(* whose rank in that list is greater than 0.                               *)

C10_List(list, game, key) ==
    LET expected == {c \in {Assigned(game)[i] : i \in 1..Len(Assigned(game))} :
                        c[key] > 0}
    IN  /\ \A i, j \in 1..Len(list) : i < j => list[i].order <= list[j].order
        /\ \A i \in 1..Len(list) : list[i].order > 0
        /\ \A c \in expected :
              Cardinality({i \in 1..Len(list) :
                  list[i] = [name |-> c.name, ability |-> c.ability,
                             order |-> c[key]]}) = 1
        /\ Len(list) = Cardinality(expected)

C10_NightOrderSorted ==
    \A g \in DOMAIN games :
        games[g].started =>
            LET outcome == get_night_order(games, g)
            IN  /\ outcome.error = NoError
                /\ C10_List(Get(outcome.value).first_night, games[g], "first_night")
                /\ C10_List(Get(outcome.value).other_nights, games[g], "other_nights")

\* a started game whose players, in join order, hold characters that are not
\* in rank order, and one of whose characters has rank 0 in a list
C10_Witness ==
    \E g \in start_ok :
        LET held == Assigned(games[g])
        IN  /\ \E i, j \in 1..Len(held) :
                  i < j /\ held[i].other_nights > held[j].other_nights
                        /\ held[j].other_nights > 0
            /\ \E i \in 1..Len(held) : held[i].first_night = 0
            /\ Len(Get(get_night_order(games, g).value).other_nights) >= 2

-----------------------------------------------------------------------------
(* C11: get_night_order raises "Spiel nicht gefunden oder noch nicht        *)
(* gestartet" on every game that has not started, and the overview the      *)
(* storyteller of a game gets always succeeds and holds a night order, the  *)
(* one get_night_order returns, exactly when the game has started; for a    *)
(* game that has not started its night_order is None.                       *)

C11_NightOrderOnlyWhenStarted ==
    \A g \in DOMAIN games :
        LET overview == get_storyteller_overview(games, g, HostId(games[g]))
        IN  /\ ~games[g].started =>
                  get_night_order(games, g) = Raise(games, ErrNotFoundOrNotStarted)
            /\ overview.error = NoError
            /\ Get(overview.value).started = games[g].started
            /\ IsSome(Get(overview.value).night_order) <=> games[g].started
            /\ games[g].started =>
                  Get(overview.value).night_order = get_night_order(games, g).value

\* a game with players that has not started, whose storyteller gets an overview
\* without night order, next to a started game whose overview lists a character
C11_Witness ==
    \E g, h \in DOMAIN games :
        /\ ~games[g].started
        /\ Len(games[g].players) >= 2
        /\ get_storyteller_overview(games, g, HostId(games[g])).error = NoError
        /\ IsNone(Get(get_storyteller_overview(games, g, HostId(games[g])).value).night_order)
        /\ h \in start_ok
        /\ LET overview == get_storyteller_overview(games, h, HostId(games[h]))
           IN  /\ IsSome(Get(overview.value).night_order)
               /\ Len(Get(Get(overview.value).night_order).other_nights) >= 1

-----------------------------------------------------------------------------
(* C12: get_player_role returns a value for every game id and player id:    *)
(* None when the store has no such game, when no player of the game has the *)
(* id, and when the player holds no character, as every player of a game    *)
(* that has not started; otherwise the character that player holds, which   *)
(* is the one start_game gave it. The handler answers None with 404.        *)

C12_RoleIsAssignedCharacter ==
    \A game_id \in GameIdArgs(games), player_id \in PlayerIdArgs(games) :
        LET role == get_player_role(games, game_id, player_id)
            response == get_player_role_response(games, game_id, player_id)
        IN  /\ IsNone(role) \/ role = Some(Get(role))
            /\ game_id \notin DOMAIN games => IsNone(role)
            /\ game_id \in DOMAIN games =>
                  LET players == games[game_id].players
                      hits == {i \in 1..Len(players) : players[i].id = player_id}
                  IN  /\ hits = {} => IsNone(role)
                      /\ Cardinality(hits) <= 1
                      /\ \A i \in hits : role = players[i].character
                      /\ ~games[game_id].started => IsNone(role)
            /\ response.status = IF IsSome(role) THEN 200 ELSE 404

\* a started game one of whose players gets its character and another of whose
\* players holds none, while the store has a game that has not started
C12_Witness ==
    \E g \in start_ok, h \in DOMAIN games :
        /\ ~games[h].started
        /\ Len(games[h].players) >= 2
        /\ IsNone(get_player_role(games, h, games[h].players[2].id))
        /\ \E i, j \in 2..Len(games[g].players) :
              /\ IsSome(games[g].players[i].character)
              /\ get_player_role(games, g, games[g].players[i].id)
                    = games[g].players[i].character
              /\ IsNone(get_player_role(games, g, games[g].players[j].id))

-----------------------------------------------------------------------------
(* C13: create_game with an edition that editions_data does not hold raises *)
(* "Edition nicht gefunden" and stores no game; with an edition it holds it *)
(* stores one new game and keeps the others: the new game has the requested *)
(* edition, started False, player_count None, and a player list that is     *)
(* exactly the storyteller, with is_storyteller True and no character.      *)

C13_CreateOutcome ==
    \A edition \in EditionArgs, name \in StorytellerNames :
        LET outcome == create_game(games, edition, name)
            added == DOMAIN outcome.games \ DOMAIN games
        IN  IF edition \notin DOMAIN editions_data
            THEN /\ outcome.error = ErrEditionNotFound
                 /\ outcome.games = games
                 /\ IsNone(outcome.value)
            ELSE /\ outcome.error = NoError
                 /\ Cardinality(added) = 1
                 /\ \A h \in DOMAIN games :
                       h \in DOMAIN outcome.games /\ outcome.games[h] = games[h]
                 /\ \A g \in added :
                       /\ outcome.value = Some(outcome.games[g])
                       /\ outcome.games[g].id = g
                       /\ outcome.games[g].edition = edition
                       /\ outcome.games[g].started = FALSE
                       /\ IsNone(outcome.games[g].player_count)
                       /\ Len(outcome.games[g].players) = 1
                       /\ outcome.games[g].players[1].name = name
                       /\ outcome.games[g].players[1].is_storyteller = TRUE
                       /\ IsNone(outcome.games[g].players[1].character)

\* a store that create_game has given a game of each edition of the catalog, as
\* it made them, while some edition of the requests is unknown
C13_Witness ==
    /\ \E edition \in EditionArgs :
          create_game(games, edition, "Alice").error = ErrEditionNotFound
    /\ Cardinality(DOMAIN games) = 2
    /\ \A g \in DOMAIN games :
          /\ games[g].players = <<Player(HostId(games[g]), "Alice", TRUE)>>
          /\ ~games[g].started
          /\ IsNone(games[g].player_count)
    /\ \E g, h \in DOMAIN games : games[g].edition # games[h].edition

-----------------------------------------------------------------------------
(* C14: every character a player holds is a character of a bucket of the    *)
(* game's edition in editions_data, with `type` set to that bucket; every   *)
(* list _select_random_characters may return for a row of the edition's     *)
(* table holds, of each bucket, exactly min(required, available) characters *)
(* of that bucket, no two the same; so the players of a started game never  *)
(* hold more characters of a bucket than the row of its player_count asks.  *)

\* character is the entry of the bucket char_type of the edition, tagged
C14_FromBucket(character, edition, char_type) ==
    /\ character.type = char_type
    /\ \E k \in 1..Available(edition, char_type) :
          LET raw == editions_data[edition].characters[char_type][k]
          IN  character = Character(raw.id, raw.name, raw.ability,
                                    raw.first_night, raw.other_nights, char_type)

C14_SelectionFromCatalog ==
    /\ \A g \in DOMAIN games :
          \A i \in 1..Len(Assigned(games[g])) :
              \E t \in {CharacterTypes[k] : k \in 1..Len(CharacterTypes)} :
                  C14_FromBucket(Assigned(games[g])[i], games[g].edition, t)
    /\ \A edition \in DOMAIN editions_data :
          \A key \in DOMAIN editions_data[edition].setup :
              \A selected \in _select_random_characters(
                                  edition, editions_data[edition].setup[key]) :
                  \A t \in {CharacterTypes[k] : k \in 1..Len(CharacterTypes)} :
                      LET of_t == {i \in 1..Len(selected) : selected[i].type = t}
                      IN  /\ Cardinality(of_t)
                                = Min(editions_data[edition].setup[key][t],
                                      Available(edition, t))
                          /\ \A i \in of_t : C14_FromBucket(selected[i], edition, t)
                          /\ \A i, j \in of_t :
                                selected[i].id = selected[j].id => i = j
    /\ \A g \in DOMAIN games :
          (games[g].started /\ IsSome(games[g].player_count)) =>
              \A t \in {CharacterTypes[k] : k \in 1..Len(CharacterTypes)} :
                  Cardinality({i \in 1..Len(Assigned(games[g])) :
                                  Assigned(games[g])[i].type = t})
                      <= Required(games[g].edition, Get(games[g].player_count), t)

\* a started game whose row asks of one bucket more than the bucket holds and
\* of another less than it holds, and whose players hold a character of the
\* first bucket
C14_Witness ==
    \E g \in start_ok :
        LET n == Get(games[g].player_count)
            e == games[g].edition
        IN  \E t, u \in {CharacterTypes[k] : k \in 1..Len(CharacterTypes)} :
                /\ Required(e, n, t) > Available(e, t)
                /\ Required(e, n, u) < Available(e, u)
                /\ \E i \in 1..Len(Assigned(games[g])) : Assigned(games[g])[i].type = t

-----------------------------------------------------------------------------
(* C15: on the event loop the requests on a game are serialized.  With      *)
(* join and start requests in flight at the same time, a start_game that    *)
(* returns does so on a game on which none has returned before, no player   *)
(* that holds a character is given another, no player is appended to a game *)
(* between the count check of a start_game and its `game.started = True`,   *)
(* and the player_count of a started game is the number of its              *)
(* non-storyteller players: every player that joined was counted.           *)

\* no other request has touched the game of a start_game that is between its
\* count check and its return
C15_Checked ==
    \A t \in 1..MaxTasks :
        tasks[t].pc \in {"start_assign", "start_finish"} =>
            /\ ~games[tasks[t].game_id].started
            /\ Len(NonHosts(games[tasks[t].game_id])) = tasks[t].player_count

C15_Step ==
    /\ \A t \in 1..MaxTasks :
          (tasks[t].pc = "start_finish" /\ tasks'[t].pc # "start_finish") =>
              tasks[t].game_id \notin start_ok
    /\ \A g \in DOMAIN games : \A i \in 1..Len(games[g].players) :
          IsSome(games[g].players[i].character) =>
              games'[g].players[i].character = games[g].players[i].character
    /\ \A t \in 1..MaxTasks :
          tasks[t].pc \in {"start_assign", "start_finish"} =>
              Len(games'[tasks[t].game_id].players)
                  = Len(games[tasks[t].game_id].players)
    /\ C15_Checked'
    /\ \A g \in DOMAIN games' :
          games'[g].started =>
              games'[g].player_count = Some(Len(NonHosts(games'[g])))

C15_RequestsSerialized == [][C15_Step]_vars

\* a start_game that has passed its count check and assigned characters but
\* not yet set `started`, while a join request on the same game is in flight
C15_Witness ==
    \E t, u \in 1..MaxTasks :
        /\ tasks[t].pc = "start_finish"
        /\ tasks[t].player_count >= 1
        /\ tasks[u].pc = "ready"
        /\ tasks[u].op = "join"
        /\ tasks[u].game_id = tasks[t].game_id

-----------------------------------------------------------------------------
(* C16: when start_game passes its checks and fewer characters are selected *)
(* than the game has non-storyteller players, it raises nothing and sets    *)
(* started; as many players as characters were selected then hold one, and  *)
(* they are the first in join order: a player that holds a character is     *)
(* preceded only by players that hold one.                                  *)

\* the players of the game that hold a character are the first `count` of its
\* non-storyteller players
C16_LeadingPlayers(game, count) ==
    LET others == NonHosts(game)
    IN  \A i \in 1..Len(others) : IsSome(others[i].character) <=> i <= count

C16_TruncatedStart ==
    /\ \A g \in DOMAIN games : \A n \in PlayerCountArgs :
          (/\ ~games[g].started
           /\ Len(NonHosts(games[g])) = n
           /\ HasRow(games[g].edition, n)
           /\ SelectedCount(games[g].edition, n) < n) =>
              /\ start_game(games, g, n) # {}
              /\ \A outcome \in start_game(games, g, n) :
                    /\ outcome.error = NoError
                    /\ outcome.games[g].started
                    /\ C16_LeadingPlayers(outcome.games[g],
                                          SelectedCount(games[g].edition, n))
    /\ \A g \in start_ok :
          /\ games[g].started
          /\ \A i, j \in 1..Len(games[g].players) :
                (i < j /\ ~games[g].players[i].is_storyteller
                       /\ IsSome(games[g].players[j].character))
                    => IsSome(games[g].players[i].character)

\* a started game with two players of which the one that joined first holds a
\* character and the other holds none
C16_Witness ==
    \E g \in start_ok :
        /\ games[g].started
        /\ Len(games[g].players) = 3
        /\ IsSome(games[g].players[2].character)
        /\ IsNone(games[g].players[3].character)
        /\ SelectedCount(games[g].edition, 2) = 1

-----------------------------------------------------------------------------
(* C17: in each list of get_night_order, two characters of equal rank stand *)
(* in the join order of the players that hold them: sorted() is stable and  *)
(* the characters are collected in the order of game.players.               *)

\* the entry of a night list for a character
C17_Entry(character, key) ==
    [name |-> character.name, ability |-> character.ability,
     order |-> character[key]]

C17_List(list, game, key) ==
    LET held == Assigned(game)
    IN  \A i, j \in 1..Len(held) :
            (i < j /\ held[i][key] = held[j][key] /\ held[i][key] > 0) =>
                \E p, q \in 1..Len(list) :
                    /\ p < q
                    /\ list[p] = C17_Entry(held[i], key)
                    /\ list[q] = C17_Entry(held[j], key)

C17_TiesInJoinOrder ==
    \A g \in DOMAIN games :
        games[g].started =>
            LET outcome == get_night_order(games, g)
            IN  /\ outcome.error = NoError
                /\ C17_List(Get(outcome.value).first_night, games[g], "first_night")
                /\ C17_List(Get(outcome.value).other_nights, games[g], "other_nights")

\* a started game two of whose players hold characters of the same rank in the
\* list of the other nights, after a character of a smaller rank
C17_Witness ==
    \E g \in start_ok :
        LET held == Assigned(games[g])
            list == Get(get_night_order(games, g).value).other_nights
        IN  /\ \E i, j \in 1..Len(held) :
                  /\ i < j
                  /\ held[i].other_nights = held[j].other_nights
                  /\ held[i].other_nights > 0
                  /\ held[i] # held[j]
            /\ Len(list) = 3
            /\ list[1].order < list[2].order

-----------------------------------------------------------------------------
(* C18: the storyteller of a game never holds a character: start_game       *)
(* assigns to the non-storyteller players only.  So get_player_role with    *)
(* the storyteller's id is None (404 from the handler) in every state, and  *)
(* the characters get_night_order lists are those of the other players.     *)

C18_StorytellerHasNoCharacter ==
    \A g \in DOMAIN games :
        /\ \A i \in 1..Len(games[g].players) :
              games[g].players[i].is_storyteller =>
                  IsNone(games[g].players[i].character)
        /\ games[g].players[1].is_storyteller
        /\ IsNone(get_player_role(games, g, HostId(games[g])))
        /\ get_player_role_response(games, g, HostId(games[g])).status = 404
        /\ characters_in_game(games[g].players)
              = characters_in_game(NonHosts(games[g]))
        /\ games[g].started =>
              LET night_order == Get(get_night_order(games, g).value)
              IN  /\ Len(night_order.first_night) <= Len(NonHosts(games[g]))
                  /\ Len(night_order.other_nights) <= Len(NonHosts(games[g]))

\* a started game every other player of which holds a character that is woken
\* in the other nights, and whose storyteller asks for a role
C18_Witness ==
    \E g \in start_ok :
        /\ Len(games[g].players) >= 3
        /\ \A i \in 2..Len(games[g].players) : IsSome(games[g].players[i].character)
        /\ Len(Get(get_night_order(games, g).value).other_nights)
              = Len(games[g].players) - 1
        /\ IsNone(get_player_role(games, g, HostId(games[g])))

-----------------------------------------------------------------------------
(* C19: between requests, a game that has not started has player_count None *)
(* and no player with a character; a started game has as player_count the   *)
(* number of its non-storyteller players; and no request takes `started`    *)
(* of a game from True back to False.                                       *)

C19_Game(game) ==
    /\ ~game.started =>
          /\ IsNone(game.player_count)
          /\ \A i \in 1..Len(game.players) : IsNone(game.players[i].character)
    /\ game.started => game.player_count = Some(Len(NonHosts(game)))

C19_Step ==
    /\ \A g \in DOMAIN games : C19_Game(games[g])
    /\ \A g \in DOMAIN games' : C19_Game(games'[g])
    /\ \A g \in DOMAIN games :
          games[g].started => (g \in DOMAIN games' /\ games'[g].started)

C19_StartedIsConsistent == [][C19_Step]_vars

\* a started game with two players next to a game with a player that has not
\* started
C19_Witness ==
    \E g \in start_ok, h \in DOMAIN games :
        /\ games[g].started
        /\ games[g].player_count = Some(2)
        /\ Len(NonHosts(games[g])) = 2
        /\ ~games[h].started
        /\ Len(NonHosts(games[h])) = 1
        /\ IsNone(games[h].player_count)

-----------------------------------------------------------------------------
(* C20: no request removes or replaces a game: a game id of the store stays *)
(* in it, with the same edition and the same storyteller.  create_game      *)
(* keeps every game as it is, join_game and start_game on a game keep every *)
(* other game as it is, and get_night_order and get_storyteller_overview    *)
(* leave the store as they found it (get_game and get_player_role return a  *)
(* value only); so a step changes at most one game.  Game ids are taken as  *)
(* tokens that do not repeat.                                               *)

\* the calls a request may make leave the games they are not about alone
C20_OtherGamesKept ==
    /\ \A edition \in EditionArgs, name \in StorytellerNames :
          \A g \in DOMAIN games :
              /\ g \in DOMAIN create_game(games, edition, name).games
              /\ create_game(games, edition, name).games[g] = games[g]
    /\ \A h \in GameIdArgs(games) : \A g \in DOMAIN games \ {h} :
          /\ \A name \in PlayerNames :
                /\ DOMAIN join_game(games, h, name).games = DOMAIN games
                /\ join_game(games, h, name).games[g] = games[g]
          /\ \A n \in PlayerCountArgs : \A outcome \in start_game(games, h, n) :
                /\ DOMAIN outcome.games = DOMAIN games
                /\ outcome.games[g] = games[g]
    /\ \A h \in GameIdArgs(games) :
          /\ get_night_order(games, h).games = games
          /\ \A player_id \in PlayerIdArgs(games) :
                get_storyteller_overview(games, h, player_id).games = games

C20_Step ==
    /\ \A g \in DOMAIN games :
          /\ g \in DOMAIN games'
          /\ games'[g].id = games[g].id
          /\ games'[g].edition = games[g].edition
          /\ games'[g].players[1] = games[g].players[1]
    /\ Cardinality({g \in DOMAIN games : games'[g] # games[g]}) <= 1

=============================================================================
